---- MODULE Spec2Model ----
(***************************************************************************)
(* kube-apiserver-lb: a TCP load balancer in front of a fixed list of      *)
(* kube-apiservers.  The repository holds three designs of the same        *)
(* program:                                                                *)
(*   "main"  src/main.go             HealthyServers shared without a lock  *)
(*   "lock"  src/unnamed/part_002    HealthyServers under a sync.RWMutex   *)
(*   "chan"  src/unnamed/part_001    healthy set sent over a channel       *)
(*           (second file, lines 171-393)                                  *)
(* Spec        models the monitor, the listener and the selection loop of  *)
(*             one instance, with its cursor below MaxCounter.             *)
(* FairSpec    is Spec with the goroutines scheduled fairly.               *)
(* SpecRestart adds main's loop, which calls Start again after an error.   *)
(* SpecWrap    is the channel design with the cursor running past MaxInt.  *)
(* SpecFwd     models forward() on one connection pair, FairFwd with its   *)
(*             copy tasks scheduled fairly.                                *)
(***************************************************************************)
EXTENDS Integers, Sequences, FiniteSets, TLC

\* ------------------------------------------------------------------ bounds
MaxBackends == 2
MaxCounter == 4
MaxReaders == 2
MaxLen == 1
\* width in bits of Go's int (64 in the build), scaled down
IntBits == 4
\* how many times main's loop calls Start
MaxMonitors == 2

Variants == {"main", "lock", "chan"}

\* A configured backend list: n distinct addresses, in configured order.
Config(n) == [i \in 1..n |-> i]
Configs == {Config(n) : n \in 0..MaxBackends}

Range(s) == {s[i] : i \in 1..Len(s)}

\* What a peer sends before it closes: n bytes, all different, so that a
\* lost, repeated or displaced byte shows in what arrives.
Data == {[i \in 1..n |-> i] : n \in 0..MaxLen}

VARIABLES
    variant,            \* which of the three programs runs
    RemoteServers,      \* lb.RemoteServers
    HealthyServers,     \* lb.HealthyServers ("chan": Start's healthyServers)
    rrCounter,          \* lb.rrCounter
    newHealthyServers,  \* startHealthChecks' local of the same name
    probeOk,            \* servers whose probe of this iteration returned 200
    monPc,              \* position of the startHealthChecks goroutine
    monitors,           \* startHealthChecks goroutines started, none returns
    accPc,              \* position of Start's loop
    lisPc,              \* position of acceptAsChan ("chan" only)
    localConn,          \* acceptAsChan's localConn: "none", "conn", "nil"
    conn,               \* the connection Start handles: "none", "conn", "nil"
    rwReaders,          \* HealthyServersLock: read holds not yet released
    rwWriter,           \* HealthyServersLock: goroutine holding the write lock
    rwWaiting,          \* HealthyServersLock: goroutines blocked in Lock()
    numberOfHealthyRemotes, \* the selection's local of the same name
    remote,             \* Start's local remote (0: none)
    exited,             \* what ended the process, or "none"
    \* history of the connection being handled
    obs,                \* the healthy set the selection read the length of
    idxSet,             \* the healthy set the selection indexed
    sel,                \* "none", "healthyFailed", "healthy", "fallback", "failed"
    selCursor,          \* rrCounter when the backend was picked
    dialed,             \* backend dialed for this connection (0: none)
    dialRes,            \* "none", "ok", "fail"
    hist,               \* indices picked since the healthy set last changed
    failed,             \* backend removed after a dial failure, no publish since
    leaked,             \* chooseRemote returned with its read lock held
    dropped,            \* a connection Start gave up on is still open
    \* forward(): one connection pair
    toSend,             \* per side: the bytes the peer sends before it closes
    nSent,              \* per side: how many of them the peer has sent
    inbuf,              \* per side: bytes received on that socket, not yet read
    fin,                \* per side: the peer has closed its end
    rst,                \* per side: the socket fails every further Read/Write
    closed,             \* per side: Close() was called on that socket
    out,                \* per side: bytes delivered to the peer
    cpPc,               \* per copyConn task (named by its reader): position
    buf,                \* per copyConn task: bytes read and not yet written
    cpErr,              \* per copyConn task: io.Copy returned an error
    closeErrs,          \* "Error closing socket" lines logged
    others              \* other connection pairs are being forwarded

cfgVars == <<variant, RemoteServers, monitors>>
monVars == <<newHealthyServers, probeOk, monPc>>
lockVars == <<rwReaders, rwWriter, rwWaiting>>
lisVars == <<lisPc, localConn>>
connVars == <<conn, numberOfHealthyRemotes, remote, obs, idxSet, sel,
              selCursor, dialed, dialRes>>
setVars == <<HealthyServers, hist, failed>>
fwdVars == <<toSend, nSent, inbuf, fin, rst, closed, out, cpPc, buf, cpErr,
             closeErrs, others>>

vars == <<cfgVars, monVars, lockVars, lisVars, connVars, setVars, rrCounter,
          accPc, exited, leaked, dropped, fwdVars>>

Sides == {"local", "remote"}
Peer(s) == IF s = "local" THEN "remote" ELSE "local"

\* ------------------------------------------------------- pure functions

\* the probe loop: the configured servers that answered 200, in order
probeAll(servers, up) == SelectSeq(servers, LAMBDA s : s \in up)

\* the comparison of the loop inverted
removeHealthyRemoteInverted(servers, r) == SelectSeq(servers, LAMBDA s : s = r)

\* removeHealthyRemote's loop: every server different from remote, in order
removeHealthyRemote(servers, r) == SelectSeq(servers, LAMBDA s : s # r)

\* the index taken from the counter already advanced
pickedIdxNext(counter, n) == (counter + 1) % n

\* rrCounter % n for n > 0, Go's remainder: it has the sign of rrCounter.
\* n = 0 is the runtime panic "integer divide by zero", which the actions
\* raise before they use this
pickedIdx(counter, n) ==
    IF counter >= 0 THEN counter % n ELSE -((-counter) % n)

\* the emptiness check left out
isEmptyNever(n) == FALSE

\* the emptiness check of a selection: numberOfHealthyRemotes == 0
isEmpty(n) == n = 0

\* the configured list indexed in place of the list handed in
elemAtConfigured(servers, idx) ==
    RemoteServers[(idx % Len(RemoteServers)) + 1]

\* servers[idx], Go's 0-based indexing
elemAt(servers, idx) == servers[idx + 1]

MaxInt == 2 ^ (IntBits - 1) - 1
MinInt == -(2 ^ (IntBits - 1))

\* a selection that leaves the cursor where it was
rrCounterKept(c) == c

\* lb.rrCounter += 1 on a signed int: wraps from MaxInt to MinInt
rrCounterPlusOne(c) == IF c = MaxInt THEN MinInt ELSE c + 1

\* the picks recorded for the old set are forgotten when the set changes
histAfter(new) == IF new = HealthyServers THEN hist ELSE <<>>

\* the last MaxBackends picks
histAdd(idx) ==
    IF Len(hist) < MaxBackends THEN Append(hist, idx)
    ELSE Append(Tail(hist), idx)

Alive == exited = "none"

\* forward() has not been called: no pair
NoPair ==
    /\ nSent = [s \in Sides |-> 0]
    /\ inbuf = [s \in Sides |-> <<>>]
    /\ fin = [s \in Sides |-> FALSE]
    /\ rst = [s \in Sides |-> FALSE]
    /\ closed = [s \in Sides |-> FALSE]
    /\ out = [s \in Sides |-> <<>>]
    /\ cpPc = [s \in Sides |-> "none"]
    /\ buf = [s \in Sides |-> <<>>]
    /\ cpErr = [s \in Sides |-> FALSE]
    /\ closeErrs = 0

\* the instance main() builds, and Start up to its loop: the health checks
\* are launched and net.Listen has succeeded
InitLb ==
    /\ variant \in Variants
    /\ RemoteServers \in Configs
    /\ HealthyServers = IF variant = "chan" THEN RemoteServers ELSE <<>>
    /\ rrCounter = 1
    /\ newHealthyServers = <<>>
    /\ probeOk = {}
    /\ monPc = "probe"
    /\ monitors = 1
    /\ accPc = IF variant = "chan" THEN "select" ELSE "accept"
    /\ lisPc = IF variant = "chan" THEN "accept" ELSE "unused"
    /\ localConn = "none"
    /\ conn = "none"
    /\ rwReaders = 0
    /\ rwWriter = "none"
    /\ rwWaiting = {}
    /\ numberOfHealthyRemotes = 0
    /\ remote = 0
    /\ exited = "none"
    /\ obs = <<>>
    /\ idxSet = <<>>
    /\ sel = "none"
    /\ selCursor = 0
    /\ dialed = 0
    /\ dialRes = "none"
    /\ hist = <<>>
    /\ failed = 0
    /\ leaked = FALSE
    /\ dropped = FALSE

Init == InitLb /\ NoPair /\ others = FALSE /\ toSend = [s \in Sides |-> <<>>]

\* ------------------------------------------------ HealthyServersLock
\* sync.RWMutex: RLock waits while a writer holds the lock or is blocked
\* in Lock(); Lock waits for the writer and for every read hold.
CanRLock == rwWriter = "none" /\ rwWaiting = {}
\* a write lock that does not wait for the readers
CanLockOverReaders == rwWriter = "none"

CanLock == rwWriter = "none" /\ rwReaders = 0

\* ---------------------------------------------------- startHealthChecks
\* one pass of the probe loop: any subset of the servers answers 200
MonitorProbe ==
    /\ Alive /\ monPc = "probe"
    /\ \E up \in SUBSET Range(RemoteServers) :
           /\ probeOk' = up
           /\ newHealthyServers' = probeAll(RemoteServers, up)
    /\ monPc' = CASE variant = "lock" -> "lock"
                  [] variant = "main" -> "assign"
                  [] OTHER -> "send"
    /\ UNCHANGED <<cfgVars, lockVars, lisVars, connVars, setVars, rrCounter,
                   accPc, exited, leaked, dropped, fwdVars>>

\* lb.HealthyServersLock.Lock() is called: readers are shut out from now on
MonitorLock ==
    /\ Alive /\ monPc = "lock"
    /\ rwWaiting' = rwWaiting \cup {"monitor"}
    /\ monPc' = "waitlock"
    /\ UNCHANGED <<cfgVars, newHealthyServers, probeOk, rwReaders, rwWriter, lisVars,
                   connVars, setVars, rrCounter, accPc, exited, leaked, dropped,
                   fwdVars>>

\* Lock() returns
MonitorAcquire ==
    /\ Alive /\ monPc = "waitlock"
    /\ CanLock
    /\ rwWaiting' = rwWaiting \ {"monitor"}
    /\ rwWriter' = "monitor"
    /\ monPc' = "assign"
    /\ UNCHANGED <<cfgVars, newHealthyServers, probeOk, rwReaders, lisVars, connVars,
                   setVars, rrCounter, accPc, exited, leaked, dropped, fwdVars>>

\* a publish that adds the iteration's result to the set in place
MonitorAssignMerged ==
    /\ Alive /\ monPc = "assign"
    /\ HealthyServers' =
          HealthyServers \o
          SelectSeq(newHealthyServers,
                    LAMBDA s : s \notin Range(HealthyServers))
    /\ hist' = histAfter(newHealthyServers)
    /\ failed' = 0
    /\ monPc' = IF variant = "lock" THEN "unlock" ELSE "sleep"
    /\ UNCHANGED <<cfgVars, newHealthyServers, probeOk, lockVars, lisVars,
                   connVars, rrCounter, accPc, exited, leaked, dropped,
                   fwdVars>>

\* lb.HealthyServers = newHealthyServers
MonitorAssign ==
    /\ Alive /\ monPc = "assign"
    /\ HealthyServers' = newHealthyServers
    /\ hist' = histAfter(newHealthyServers)
    /\ failed' = 0
    /\ monPc' = IF variant = "lock" THEN "unlock" ELSE "sleep"
    /\ UNCHANGED <<cfgVars, newHealthyServers, probeOk, lockVars, lisVars, connVars,
                   rrCounter, accPc, exited, leaked, dropped, fwdVars>>

\* lb.HealthyServersLock.Unlock()
MonitorUnlock ==
    /\ Alive /\ monPc = "unlock"
    /\ rwWriter' = "none"
    /\ monPc' = "sleep"
    /\ UNCHANGED <<cfgVars, newHealthyServers, probeOk, rwReaders, rwWaiting, lisVars,
                   connVars, setVars, rrCounter, accPc, exited, leaked, dropped,
                   fwdVars>>

\* time.Sleep returns, the loop starts over
MonitorSleep ==
    /\ Alive /\ monPc = "sleep"
    /\ monPc' = "probe"
    /\ UNCHANGED <<cfgVars, newHealthyServers, probeOk, lockVars, lisVars, connVars,
                   setVars, rrCounter, accPc, exited, leaked, dropped, fwdVars>>

\* ------------------------------------------- Start ("main" and "lock")
\* listener.Accept() returns a connection
AcceptConn ==
    /\ Alive /\ variant # "chan" /\ accPc = "accept"
    /\ rwReaders < MaxReaders
    /\ conn' = "conn"
    /\ numberOfHealthyRemotes' = 0
    /\ remote' = 0
    /\ obs' = <<>>
    /\ idxSet' = <<>>
    /\ sel' = "none"
    /\ selCursor' = 0
    /\ dialed' = 0
    /\ dialRes' = "none"
    /\ accPc' = IF variant = "lock" THEN "rlock" ELSE "len"
    /\ UNCHANGED <<cfgVars, monVars, lockVars, lisVars, setVars, rrCounter,
                   exited, leaked, dropped, fwdVars>>

\* listener.Accept() returns an error: Start returns it
AcceptError ==
    /\ Alive /\ variant # "chan" /\ accPc = "accept"
    /\ accPc' = "returned"
    /\ UNCHANGED <<cfgVars, monVars, lockVars, lisVars, connVars, setVars,
                   rrCounter, exited, leaked, dropped, fwdVars>>

\* chooseRemote: lb.HealthyServersLock.RLock()
ChooseRLock ==
    /\ Alive /\ accPc = "rlock"
    /\ CanRLock
    /\ rwReaders' = rwReaders + 1
    /\ accPc' = "len"
    /\ UNCHANGED <<cfgVars, monVars, rwWriter, rwWaiting, lisVars, connVars,
                   setVars, rrCounter, exited, leaked, dropped, fwdVars>>

\* chooseRemote: numberOfHealthyRemotes := len(lb.HealthyServers) and the
\* emptiness check; the error return leaves without RUnlock, and Start
\* continues with the next Accept
ChooseLen ==
    /\ Alive /\ accPc = "len"
    /\ numberOfHealthyRemotes' = Len(HealthyServers)
    /\ obs' = HealthyServers
    /\ IF isEmpty(Len(HealthyServers))
       THEN /\ sel' = "failed"
            /\ leaked' = (leaked \/ variant = "lock")
            /\ dropped' = (dropped \/ conn = "conn")
            /\ accPc' = "accept"
       ELSE /\ accPc' = "idx"
            /\ UNCHANGED <<sel, leaked, dropped>>
    /\ UNCHANGED <<cfgVars, monVars, lockVars, lisVars, conn, remote, idxSet,
                   selCursor, dialed, dialRes, setVars, rrCounter, exited,
                   fwdVars>>

\* chooseRemote: rrCounter % numberOfHealthyRemotes and the indexing of
\* lb.HealthyServers; an index past the end is a runtime panic
ChooseIdx ==
    /\ Alive /\ accPc = "idx"
    /\ IF numberOfHealthyRemotes = 0
       THEN /\ exited' = "integer divide by zero"
            /\ UNCHANGED <<remote, idxSet, sel, selCursor, hist, accPc>>
       ELSE
       LET idx == pickedIdx(rrCounter, numberOfHealthyRemotes) IN
       IF idx \in 0..(Len(HealthyServers) - 1)
       THEN /\ remote' = elemAt(HealthyServers, idx)
            /\ idxSet' = HealthyServers
            /\ sel' = "healthy"
            /\ selCursor' = rrCounter
            /\ hist' = histAdd(idx)
            /\ accPc' = IF variant = "lock" THEN "runlock" ELSE "dial"
            /\ UNCHANGED exited
       ELSE /\ exited' = "index out of range"
            /\ UNCHANGED <<remote, idxSet, sel, selCursor, hist, accPc>>
    /\ UNCHANGED <<cfgVars, monVars, lockVars, lisVars, conn,
                   numberOfHealthyRemotes, obs, dialed, dialRes,
                   HealthyServers, failed, rrCounter, leaked, dropped, fwdVars>>

\* chooseRemote: lb.HealthyServersLock.RUnlock() and return picked, nil
ChooseRUnlock ==
    /\ Alive /\ accPc = "runlock"
    /\ rwReaders' = rwReaders - 1
    /\ accPc' = "dial"
    /\ UNCHANGED <<cfgVars, monVars, rwWriter, rwWaiting, lisVars, connVars,
                   setVars, rrCounter, exited, leaked, dropped, fwdVars>>

\* net.Dial("tcp", remote) succeeds or fails
Dial ==
    /\ Alive /\ accPc = "dial"
    /\ dialed' = remote
    /\ \E ok \in BOOLEAN :
          /\ dialRes' = IF ok THEN "ok" ELSE "fail"
          /\ failed' = IF ok THEN failed ELSE remote
          /\ dropped' = IF ok THEN dropped ELSE (dropped \/ conn = "conn")
          /\ accPc' = CASE ok -> "forward"
                        [] ~ok /\ variant = "lock" -> "rmlock"
                        [] ~ok /\ variant = "chan" -> "remove"
                        [] OTHER -> "accept"
    /\ UNCHANGED <<cfgVars, monVars, lockVars, lisVars, conn,
                   numberOfHealthyRemotes, remote, obs, idxSet, sel,
                   selCursor, HealthyServers, hist, rrCounter, exited, leaked,
                   fwdVars>>

\* go lb.forward(localConn, remoteConn): the two copyConn goroutines start,
\* for the pair followed here or for one of the other pairs.  A nil
\* localConn (channel design, failed Accept) is dereferenced by copyConn.
Forward ==
    /\ Alive /\ accPc = "forward"
    /\ accPc' = IF variant = "chan" THEN "select" ELSE "accept"
    /\ IF conn = "nil"
       THEN /\ exited' = "nil pointer dereference"
            /\ UNCHANGED <<cpPc, others>>
       ELSE /\ UNCHANGED exited
            /\ \/ /\ cpPc = [s \in Sides |-> "none"]
                  /\ cpPc' = [s \in Sides |-> "read"]
                  /\ UNCHANGED others
               \/ /\ others' = TRUE
                  /\ UNCHANGED cpPc
    /\ UNCHANGED <<cfgVars, monVars, lockVars, lisVars, connVars, setVars,
                   rrCounter, leaked, dropped, toSend, nSent, inbuf, fin, rst,
                   closed, out, buf, cpErr, closeErrs>>

\* removeHealthyRemote: lb.HealthyServersLock.Lock() is called
RemoveLock ==
    /\ Alive /\ accPc = "rmlock"
    /\ rwWaiting' = rwWaiting \cup {"accept"}
    /\ accPc' = "rmwait"
    /\ UNCHANGED <<cfgVars, monVars, rwReaders, rwWriter, lisVars, connVars,
                   setVars, rrCounter, exited, leaked, dropped, fwdVars>>

\* removeHealthyRemote: Lock() returns
RemoveAcquire ==
    /\ Alive /\ accPc = "rmwait"
    /\ CanLock
    /\ rwWaiting' = rwWaiting \ {"accept"}
    /\ rwWriter' = "accept"
    /\ accPc' = "rmassign"
    /\ UNCHANGED <<cfgVars, monVars, rwReaders, lisVars, connVars, setVars,
                   rrCounter, exited, leaked, dropped, fwdVars>>

\* removeHealthyRemote: the filter loop and lb.HealthyServers = newHealthyServers
RemoveAssign ==
    /\ Alive /\ accPc = "rmassign"
    /\ HealthyServers' = removeHealthyRemote(HealthyServers, remote)
    /\ hist' = histAfter(removeHealthyRemote(HealthyServers, remote))
    /\ accPc' = "rmunlock"
    /\ UNCHANGED <<failed, cfgVars, monVars, lockVars, lisVars, connVars, rrCounter,
                   exited, leaked, dropped, fwdVars>>

\* removeHealthyRemote: lb.HealthyServersLock.Unlock(), Start continues
RemoveUnlock ==
    /\ Alive /\ accPc = "rmunlock"
    /\ rwWriter' = "none"
    /\ accPc' = "accept"
    /\ UNCHANGED <<cfgVars, monVars, rwReaders, rwWaiting, lisVars, connVars,
                   setVars, rrCounter, exited, leaked, dropped, fwdVars>>

\* ------------------------------------------------------- Start ("chan")
\* acceptAsChan: listener.Accept(); an error is logged and the nil
\* connection is sent all the same
ListenerAccept ==
    /\ Alive /\ lisPc = "accept"
    /\ \E c \in {"conn", "nil"} : localConn' = c
    /\ lisPc' = "send"
    /\ UNCHANGED <<cfgVars, monVars, lockVars, connVars, setVars, rrCounter,
                   accPc, exited, leaked, dropped, fwdVars>>

\* select: case conn := <-connChan, met by acceptAsChan's send; the
\* model lets no further connection in once the cursor is at cap
ChanRecvConnUpTo(cap) ==
    /\ Alive /\ accPc = "select" /\ lisPc = "send"
    /\ rrCounter < cap
    /\ conn' = localConn
    /\ lisPc' = "accept"
    /\ localConn' = "none"
    /\ numberOfHealthyRemotes' = 0
    /\ remote' = 0
    /\ obs' = <<>>
    /\ idxSet' = <<>>
    /\ sel' = "none"
    /\ selCursor' = 0
    /\ dialed' = 0
    /\ dialRes' = "none"
    /\ accPc' = "chooseHealthy"
    /\ UNCHANGED <<cfgVars, monVars, lockVars, setVars, rrCounter, exited,
                   leaked, dropped, fwdVars>>

ChanRecvConn == ChanRecvConnUpTo(MaxCounter)

\* select: case healthyServers = <-HealthyServersChan, met by the
\* monitor's send
ChanRecvHealthy ==
    /\ Alive /\ accPc = "select" /\ monPc = "send"
    /\ HealthyServers' = newHealthyServers
    /\ hist' = histAfter(newHealthyServers)
    /\ failed' = 0
    /\ monPc' = "sleep"
    /\ UNCHANGED <<cfgVars, newHealthyServers, probeOk, lockVars, lisVars, connVars,
                   rrCounter, accPc, exited, leaked, dropped, fwdVars>>

\* chooseHealthyRemote(healthyServers)
ChooseHealthy ==
    /\ Alive /\ accPc = "chooseHealthy"
    /\ numberOfHealthyRemotes' = Len(HealthyServers)
    /\ obs' = HealthyServers
    /\ IF isEmpty(Len(HealthyServers))
       THEN /\ sel' = "healthyFailed"
            /\ accPc' = "fallback"
            /\ UNCHANGED <<remote, idxSet, selCursor, hist, rrCounter, exited>>
       ELSE IF Len(HealthyServers) = 0
       THEN /\ exited' = "integer divide by zero"
            /\ UNCHANGED <<remote, idxSet, sel, selCursor, hist, rrCounter,
                           accPc>>
       ELSE IF pickedIdx(rrCounter, Len(HealthyServers)) < 0
       THEN /\ exited' = "index out of range"
            /\ UNCHANGED <<remote, idxSet, sel, selCursor, hist, rrCounter,
                           accPc>>
       ELSE /\ UNCHANGED exited
            /\ remote' = elemAt(HealthyServers,
                                pickedIdx(rrCounter, Len(HealthyServers)))
            /\ idxSet' = HealthyServers
            /\ sel' = "healthy"
            /\ selCursor' = rrCounter
            /\ hist' = histAdd(pickedIdx(rrCounter, Len(HealthyServers)))
            /\ rrCounter' = rrCounterPlusOne(rrCounter)
            /\ accPc' = "dial"
    /\ UNCHANGED <<cfgVars, monVars, lockVars, lisVars, conn, dialed, dialRes,
                   HealthyServers, failed, leaked, dropped, fwdVars>>

\* lb.chooseRemote() of the channel design: the fallback over RemoteServers
ChooseFallback ==
    /\ Alive /\ accPc = "fallback"
    /\ IF isEmpty(Len(RemoteServers))
       THEN /\ sel' = "failed"
            /\ dropped' = (dropped \/ conn = "conn")
            /\ accPc' = "select"
            /\ UNCHANGED <<remote, selCursor, rrCounter, exited>>
       ELSE IF Len(RemoteServers) = 0
       THEN /\ exited' = "integer divide by zero"
            /\ UNCHANGED <<remote, sel, selCursor, rrCounter, accPc, dropped>>
       ELSE IF pickedIdx(rrCounter, Len(RemoteServers)) < 0
       THEN /\ exited' = "index out of range"
            /\ UNCHANGED <<remote, sel, selCursor, rrCounter, accPc, dropped>>
       ELSE /\ UNCHANGED <<exited, dropped>>
            /\ remote' = elemAt(RemoteServers,
                                pickedIdx(rrCounter, Len(RemoteServers)))
            /\ sel' = "fallback"
            /\ selCursor' = rrCounter
            /\ rrCounter' = rrCounterPlusOne(rrCounter)
            /\ accPc' = "dial"
    /\ UNCHANGED <<cfgVars, monVars, lockVars, lisVars, conn,
                   numberOfHealthyRemotes, obs, idxSet, dialed, dialRes,
                   setVars, leaked, fwdVars>>

\* a removal that filters in place: healthyServers still shares its array
\* with lb.RemoteServers (line 306), which the kept elements overwrite
ChanRemoveInPlace ==
    /\ Alive /\ accPc = "remove"
    /\ HealthyServers' = removeHealthyRemote(HealthyServers, remote)
    /\ RemoteServers' =
          IF HealthyServers = RemoteServers
          THEN removeHealthyRemote(HealthyServers, remote) \o
               SubSeq(RemoteServers,
                      Len(removeHealthyRemote(HealthyServers, remote)) + 1,
                      Len(RemoteServers))
          ELSE RemoteServers
    /\ hist' = histAfter(removeHealthyRemote(HealthyServers, remote))
    /\ accPc' = "select"
    /\ UNCHANGED <<failed, variant, monitors, monVars, lockVars, lisVars,
                   connVars, rrCounter, exited, leaked, dropped, fwdVars>>

\* healthyServers = lb.removeHealthyRemote(healthyServers, remote); continue
ChanRemove ==
    /\ Alive /\ accPc = "remove"
    /\ HealthyServers' = removeHealthyRemote(HealthyServers, remote)
    /\ hist' = histAfter(removeHealthyRemote(HealthyServers, remote))
    /\ accPc' = "select"
    /\ UNCHANGED <<failed, cfgVars, monVars, lockVars, lisVars, connVars, rrCounter,
                   exited, leaked, dropped, fwdVars>>

\* Start calls Close on no path: a connection it gave up on (continue,
\* lines 129 and 136 of the lock-based design) is closed only when the
\* runtime collects the unreferenced net.Conn, at no promised time
Finalize ==
    /\ Alive /\ dropped
    /\ dropped' = FALSE
    /\ UNCHANGED <<cfgVars, monVars, lockVars, lisVars, connVars, setVars,
                   rrCounter, accPc, exited, leaked, fwdVars>>

\* --------------------------------------------------------- forward
\* The copyConn goroutine that reads socket d writes socket Peer(d):
\* go copyConn(localConn, remoteConn) is task "remote",
\* go copyConn(remoteConn, localConn) is task "local".
selLoopVars == <<cfgVars, monVars, lockVars, lisVars, connVars, setVars,
                 rrCounter, accPc, leaked, dropped>>

Deferred == variant \in {"lock", "chan"}

\* the peer on socket s sends its next byte
PeerSend(s) ==
    /\ cpPc[s] # "none" /\ ~closed[s] /\ ~rst[s] /\ ~fin[s]
    /\ nSent[s] < Len(toSend[s])
    /\ nSent' = [nSent EXCEPT ![s] = @ + 1]
    /\ inbuf' = [inbuf EXCEPT ![s] = Append(@, toSend[s][nSent[s] + 1])]
    /\ UNCHANGED <<selLoopVars, exited, toSend, fin, rst, closed, out, cpPc,
                   buf, cpErr, closeErrs, others>>

\* the peer on socket s has sent everything and closes its end
PeerClose(s) ==
    /\ cpPc[s] # "none" /\ ~closed[s] /\ ~rst[s] /\ ~fin[s]
    /\ nSent[s] = Len(toSend[s])
    /\ fin' = [fin EXCEPT ![s] = TRUE]
    /\ UNCHANGED <<selLoopVars, exited, toSend, nSent, inbuf, rst, closed, out,
                   cpPc, buf, cpErr, closeErrs, others>>

\* the connection on socket s breaks: Read and Write fail from now on
PeerReset(s) ==
    /\ cpPc[s] # "none" /\ ~closed[s] /\ ~rst[s]
    /\ rst' = [rst EXCEPT ![s] = TRUE]
    /\ UNCHANGED <<selLoopVars, exited, toSend, nSent, inbuf, fin, closed, out,
                   cpPc, buf, cpErr, closeErrs, others>>

\* the return of copyConn's io.Copy without the deferred closes
copyReturnedFatal(err) == IF err THEN "fatal" ELSE "closeW"

\* where copyConn goes when io.Copy returns err: the deferred design logs
\* and runs its deferred closes, reader first; src/main.go calls
\* log.Fatalf on an error and closes the writer otherwise
copyReturned(err) == IF Deferred THEN "closeR" ELSE copyReturnedFatal(err)

\* log.Fatalf ends the process
exitedAfter(pc) == IF pc = "fatal" THEN "log.Fatalf" ELSE exited

\* io.Copy of task d: one Read on socket d
CopyRead(d) ==
    /\ Alive /\ cpPc[d] = "read"
    /\ IF closed[d] \/ rst[d]
       THEN /\ cpErr' = [cpErr EXCEPT ![d] = TRUE]
            /\ cpPc' = [cpPc EXCEPT ![d] = copyReturned(TRUE)]
            /\ exited' = exitedAfter(copyReturned(TRUE))
            /\ UNCHANGED <<inbuf, buf>>
       ELSE IF inbuf[d] # <<>>
       THEN /\ buf' = [buf EXCEPT ![d] = inbuf[d]]
            /\ inbuf' = [inbuf EXCEPT ![d] = <<>>]
            /\ cpPc' = [cpPc EXCEPT ![d] = "write"]
            /\ UNCHANGED <<cpErr, exited>>
       ELSE /\ fin[d]
            /\ cpPc' = [cpPc EXCEPT ![d] = copyReturned(FALSE)]
            /\ UNCHANGED <<inbuf, buf, cpErr, exited>>
    /\ UNCHANGED <<selLoopVars, toSend, nSent, fin, rst, closed, out,
                   closeErrs, others>>

\* io.Copy of task d: the Write of what was read, on socket Peer(d)
CopyWrite(d) ==
    /\ Alive /\ cpPc[d] = "write"
    /\ buf' = [buf EXCEPT ![d] = <<>>]
    /\ IF closed[Peer(d)] \/ rst[Peer(d)]
       THEN /\ cpErr' = [cpErr EXCEPT ![d] = TRUE]
            /\ cpPc' = [cpPc EXCEPT ![d] = copyReturned(TRUE)]
            /\ exited' = exitedAfter(copyReturned(TRUE))
            /\ UNCHANGED out
       ELSE /\ out' = [out EXCEPT ![Peer(d)] = @ \o buf[d]]
            /\ cpPc' = [cpPc EXCEPT ![d] = "read"]
            /\ UNCHANGED <<cpErr, exited>>
    /\ UNCHANGED <<selLoopVars, toSend, nSent, inbuf, fin, rst, closed,
                   closeErrs, others>>

\* defer CloseAndLog(reader): Close of a closed socket returns an error,
\* which is logged
CloseReader(d) ==
    /\ Alive /\ cpPc[d] = "closeR"
    /\ closed' = [closed EXCEPT ![d] = TRUE]
    /\ closeErrs' = IF closed[d] THEN closeErrs + 1 ELSE closeErrs
    /\ cpPc' = [cpPc EXCEPT ![d] = "closeW"]
    /\ UNCHANGED <<selLoopVars, exited, toSend, nSent, inbuf, fin, rst, out,
                   buf, cpErr, others>>

\* the writer left open
CloseWriterSkipped(d) ==
    /\ Alive /\ cpPc[d] = "closeW"
    /\ cpPc' = [cpPc EXCEPT ![d] = "done"]
    /\ UNCHANGED <<selLoopVars, exited, toSend, nSent, inbuf, fin, rst, out,
                   buf, cpErr, others, closed, closeErrs>>

\* defer CloseAndLog(writer), and in src/main.go writer.Close() with
\* log.Fatalf on its error
CloseWriter(d) ==
    /\ Alive /\ cpPc[d] = "closeW"
    /\ closed' = [closed EXCEPT ![Peer(d)] = TRUE]
    /\ IF Deferred
       THEN /\ closeErrs' = IF closed[Peer(d)] THEN closeErrs + 1
                                               ELSE closeErrs
            /\ cpPc' = [cpPc EXCEPT ![d] = "done"]
            /\ UNCHANGED exited
       ELSE /\ cpPc' = [cpPc EXCEPT ![d] =
                           IF closed[Peer(d)] THEN "fatal" ELSE "done"]
            /\ exited' = IF closed[Peer(d)] THEN "log.Fatalf" ELSE exited
            /\ UNCHANGED closeErrs
    /\ UNCHANGED <<selLoopVars, toSend, nSent, inbuf, fin, rst, out, buf,
                   cpErr, others>>

\* a copyConn of another pair comes back from io.Copy, with an error or
\* without; that pair may have been the last of the other pairs
OtherCopyReturns ==
    /\ Alive /\ others
    /\ \E err \in BOOLEAN, last \in BOOLEAN :
          /\ exited' = exitedAfter(copyReturned(err))
          /\ others' = ~last
    /\ UNCHANGED <<selLoopVars, toSend, nSent, inbuf, fin, rst, closed, out,
                   cpPc, buf, cpErr, closeErrs>>

CopyTask(d) == CopyRead(d) \/ CopyWrite(d) \/ CloseReader(d) \/ CloseWriter(d)

\* the selection loop right after the successful Dial of its first
\* connection (others = FALSE) or of its second one, the first being
\* forwarded (others = TRUE)
FwdStart ==
    /\ variant \in Variants
    /\ others \in BOOLEAN
    /\ RemoteServers = Config(1)
    /\ HealthyServers = Config(1)
    /\ selCursor = IF variant = "chan" /\ others THEN 2 ELSE 1
    /\ rrCounter = IF variant = "chan" THEN selCursor + 1 ELSE 1
    /\ hist = IF others THEN <<0, 0>> ELSE <<0>>
    /\ newHealthyServers = IF variant = "chan" THEN <<>> ELSE Config(1)
    /\ probeOk = Range(newHealthyServers)
    /\ monitors = 1
    /\ monPc = IF variant = "chan" THEN "probe" ELSE "sleep"
    /\ accPc = "forward"
    /\ lisPc = IF variant = "chan" THEN "accept" ELSE "unused"
    /\ localConn = "none"
    /\ conn = "conn"
    /\ rwReaders = 0
    /\ rwWriter = "none"
    /\ rwWaiting = {}
    /\ numberOfHealthyRemotes = 1
    /\ remote = 1
    /\ exited = "none"
    /\ obs = Config(1)
    /\ idxSet = Config(1)
    /\ sel = "healthy"
    /\ dialed = 1
    /\ dialRes = "ok"
    /\ failed = 0
    /\ leaked = FALSE
    /\ dropped = FALSE
    /\ NoPair

\* ... with the bytes the two peers are going to send
InitFwd == FwdStart /\ toSend \in [Sides -> Data]

NextFwd ==
    \/ Forward
    \/ \E s \in Sides : PeerSend(s)
    \/ \E s \in Sides : PeerClose(s)
    \/ \E s \in Sides : PeerReset(s)
    \/ \E d \in Sides : CopyRead(d)
    \/ \E d \in Sides : CopyWrite(d)
    \/ \E d \in Sides : CloseReader(d)
    \/ \E d \in Sides : CloseWriter(d)
    \/ OtherCopyReturns

SpecFwd == InitFwd /\ [][NextFwd]_vars

\* the goroutines of the pair are scheduled; the peers owe nothing
FairFwd == SpecFwd /\ \A d \in Sides : WF_vars(CopyTask(d))

Monitor ==
    \/ MonitorProbe \/ MonitorLock \/ MonitorAcquire \/ MonitorAssign
    \/ MonitorUnlock \/ MonitorSleep

Next ==
    \/ Monitor
    \/ AcceptConn \/ AcceptError
    \/ ChooseRLock \/ ChooseLen \/ ChooseIdx \/ ChooseRUnlock
    \/ Dial \/ Forward
    \/ RemoveLock \/ RemoveAcquire \/ RemoveAssign \/ RemoveUnlock
    \/ ListenerAccept \/ ChanRecvConn \/ ChanRecvHealthy
    \/ ChooseHealthy \/ ChooseFallback \/ ChanRemove
    \/ Finalize

Spec == Init /\ [][Next]_vars

\* what Start's goroutine does by itself once it has a connection or a
\* channel is ready; the arrival of a connection is the clients' doing
StartSteps ==
    \/ ChooseRLock \/ ChooseLen \/ ChooseIdx \/ ChooseRUnlock
    \/ Dial \/ Forward
    \/ RemoveLock \/ RemoveAcquire \/ RemoveAssign \/ RemoveUnlock
    \/ ChanRecvConn \/ ChanRecvHealthy
    \/ ChooseHealthy \/ ChooseFallback \/ ChanRemove

\* main's loop after Start returned its error: a fresh apiServerLb, and
\* Start up to net.Listen, which launches that instance's health checks
\* and may fail to bind.  The goroutines of the abandoned instance, its
\* health checks among them, go on: nothing ends them.
Restart ==
    /\ Alive /\ accPc = "returned"
    /\ monitors < MaxMonitors
    /\ monitors' = monitors + 1
    /\ HealthyServers' = IF variant = "chan" THEN RemoteServers ELSE <<>>
    /\ rrCounter' = 1
    /\ newHealthyServers' = <<>>
    /\ probeOk' = {}
    /\ monPc' = "probe"
    /\ \E ok \in BOOLEAN :
          /\ accPc' = CASE ~ok -> "returned"
                        [] ok /\ variant = "chan" -> "select"
                        [] OTHER -> "accept"
          /\ lisPc' = IF ok /\ variant = "chan" THEN "accept" ELSE "unused"
    /\ localConn' = "none"
    /\ conn' = "none"
    /\ rwReaders' = 0
    /\ rwWriter' = "none"
    /\ rwWaiting' = {}
    /\ numberOfHealthyRemotes' = 0
    /\ remote' = 0
    /\ obs' = <<>>
    /\ idxSet' = <<>>
    /\ sel' = "none"
    /\ selCursor' = 0
    /\ dialed' = 0
    /\ dialRes' = "none"
    /\ hist' = <<>>
    /\ failed' = 0
    /\ leaked' = FALSE
    /\ UNCHANGED <<variant, RemoteServers, exited, dropped, fwdVars>>

NextRestart == Next \/ Restart

\* the channel design with no cap on the cursor: it runs up to MaxInt and
\* past it
InitWrap == Init /\ variant = "chan"

NextWrap ==
    \/ MonitorProbe \/ MonitorSleep \/ ChanRecvHealthy
    \/ ListenerAccept \/ ChanRecvConnUpTo(MaxInt + 1)
    \/ ChooseHealthy \/ ChooseFallback \/ Dial \/ Forward \/ ChanRemove
    \/ Finalize

SpecWrap == InitWrap /\ [][NextWrap]_vars

\* main: the for loop around lb.Start()
SpecRestart == Init /\ [][NextRestart]_vars

\* the goroutines are scheduled; clients and the collector owe nothing
FairSpec == Spec /\ WF_vars(Monitor) /\ WF_vars(StartSteps)

TypeOK ==
    /\ variant \in Variants
    /\ rrCounter \in 1..MaxCounter
    /\ rwReaders \in 0..MaxReaders
    /\ monitors \in 1..MaxMonitors
    /\ exited \in {"none", "index out of range", "integer divide by zero",
                   "nil pointer dereference", "log.Fatalf"}

InChooseRemote == accPc \in {"len", "idx", "runlock"}
AtLoopTop == accPc \in {"accept", "select"}
LockOrChan == variant \in {"lock", "chan"}

\* ------------------------------------------------------------------ C1
\* C1: in the lock-based and the channel-based design the backend dialed
\* for a connection is an element of the healthy set its selection
\* observed, or (channel design, observed set empty, fallback taken) an
\* element of the configured list; a connection whose selection failed is
\* never dialed.
C1_DialFromObserved ==
    LockOrChan =>
       /\ dialed # 0 =>
             \/ sel = "healthy" /\ dialed \in Range(obs)
             \/ /\ sel = "fallback" /\ variant = "chan" /\ obs = <<>>
                /\ dialed \in Range(RemoteServers)
       /\ sel = "failed" =>
             dialed = 0 /\ dialRes = "none" /\ accPc \notin {"dial", "forward"}

C1_Witness ==
    /\ variant = "lock" /\ sel = "healthy" /\ dialed # 0
    /\ Len(RemoteServers) = 2 /\ obs = <<2>> /\ dialed = 2

\* ------------------------------------------------------------------ C2
\* the accept loop holds read locks although it is outside chooseRemote:
\* nothing will release them
LeakedHold == rwReaders > 0 /\ ~InChooseRemote

\* C2: in the lock-based design no reachable state has the monitor blocked
\* in Lock() behind a read hold that is never released (the claim: after a
\* connection is dropped on an empty healthy set the monitor's next replace
\* completes and nobody blocks forever on HealthyServersLock).
C2_NeverBlockedForever ==
    ~(variant = "lock" /\ LeakedHold /\ monPc = "waitlock")

\* ------------------------------------------------------------------ C3
\* C3: consecutive successful healthy selections on an unchanged healthy
\* set of size N follow the round-robin sequence: each index is the
\* previous one plus one modulo N, so N of them are pairwise distinct.
C3_RoundRobin ==
    \A k \in 1..(Len(hist) - 1) :
        /\ Len(HealthyServers) > 0
        /\ hist[k + 1] = (hist[k] + 1) % Len(HealthyServers)

\* ------------------------------------------------------------------ C4
\* C4: in the lock-based design one chooseRemote call indexes the very
\* healthy set it read the length of, and never past its end.
C4_OneSetPerSelection ==
    variant = "lock" =>
       /\ sel = "healthy" => idxSet = obs
       /\ exited # "index out of range"

C4_Witness ==
    /\ variant = "lock" /\ accPc = "runlock" /\ sel = "healthy"
    /\ monPc = "waitlock" /\ newHealthyServers # HealthyServers

\* ------------------------------------------------------------------ C5
\* C5: in forward of src/main.go an error returned by io.Copy or by
\* writer.Close in either direction is only logged: the process goes on.
C5_CopyErrorIsOnlyLogged ==
    (variant = "main" /\ \E d \in Sides : cpErr[d] \/ cpPc[d] = "fatal")
       => Alive

\* ------------------------------------------------------------------ C6
Ended(d) == cpPc[d] \in {"closeR", "closeW", "done"}
PairClosed == \A d \in Sides : cpPc[d] = "done" /\ closed[d]

\* C6: in forward of the lock-based and the channel-based design, once a
\* copy direction has come to end-of-stream or to an I/O error, eventually
\* both copy tasks are over and both sockets are closed; the two Close
\* calls that found their socket closed have logged an error and nothing
\* else.
C6_BothDirectionsEnd ==
    (Deferred /\ \E d \in Sides : Ended(d))
       ~> (PairClosed /\ closeErrs = 2 /\ Alive)

C6_Witness ==
    /\ Deferred /\ PairClosed /\ closeErrs = 2
    /\ \E d \in Sides : cpErr[d] /\ ~cpErr[Peer(d)] /\ ~rst[d] /\ ~rst[Peer(d)]

\* ------------------------------------------------------------------ C7
\* the peer on a has sent all its bytes and closed, the peer on the other
\* socket has sent nothing and is still there, and no connection broke
SendsThenCloses(a) ==
    /\ cpPc[a] # "none"
    /\ nSent[a] = Len(toSend[a]) /\ fin[a]
    /\ toSend[Peer(a)] = <<>> /\ ~fin[Peer(a)]
    /\ \A s \in Sides : ~rst[s]

\* both copy tasks are over, or the process is
PairOver == ~Alive \/ \A d \in Sides : cpPc[d] \in {"done", "fatal"}

\* C7: when side A has sent b and closed while side B sent nothing, and
\* the pair is over, side B has received exactly b and both sockets are
\* closed (by Close, or with the process).
C7_ExactDelivery ==
    \A a \in Sides :
       (SendsThenCloses(a) /\ PairOver) =>
          /\ out[Peer(a)] = toSend[a]
          /\ \A s \in Sides : closed[s] \/ ~Alive

\* ------------------------------------------------------------------ C8
\* C8: in the lock-based and the channel-based design, when the handling of
\* a connection whose dial failed is over and no new healthy set has been
\* published since, the backend that failed is not in the healthy set, and
\* a later healthy selection does not return it.
C8_RemovedAtOnce ==
    (LockOrChan /\ failed # 0) =>
       /\ (dialRes = "fail" /\ AtLoopTop) => failed \notin Range(HealthyServers)
       /\ (dialRes # "fail" /\ sel = "healthy") => remote # failed

C8_Witness ==
    /\ LockOrChan /\ failed # 0 /\ sel = "healthy" /\ dialRes = "none"
    /\ monPc \in {"waitlock", "send"} /\ failed \in Range(newHealthyServers)

\* ------------------------------------------------------------------ C9
\* a step of the selection loop that runs a selection's emptiness check
SelectsOnEmpty ==
    \/ /\ accPc \in {"len", "chooseHealthy"} /\ accPc' # accPc
       /\ Len(HealthyServers) = 0
    \/ /\ accPc = "fallback" /\ accPc' # accPc
       /\ Len(RemoteServers) = 0

\* C9: no step divides by a zero size; a selection run on an empty healthy
\* set, and the channel design's chooseRemote run on an empty configured
\* list, return an error: no backend is picked, no list is indexed, and the
\* cursor and the healthy set are left as they were.
C9_EmptyIsAnError ==
    [][ /\ exited' # "integer divide by zero"
        /\ SelectsOnEmpty =>
              /\ exited' = "none"
              /\ sel' \in {"failed", "healthyFailed"}
              /\ remote' = 0 /\ idxSet' = <<>>
              /\ rrCounter' = rrCounter
              /\ HealthyServers' = HealthyServers ]_vars

C9_Witness ==
    /\ variant = "chan" /\ sel = "failed" /\ RemoteServers = <<>>
    /\ rrCounter = 1

\* ----------------------------------------------------------------- C10
\* C10: in the channel design the fallback chooseRemote runs only after
\* chooseHealthyRemote failed for the same connection, and it returns
\* RemoteServers[cursor mod len(RemoteServers)] whatever the healthy set
\* is; for two configured backends and cursor 0 that is the first one.
C10_FallbackOverConfigured ==
    [][ /\ (sel' = "fallback" /\ sel # "fallback") =>
              /\ variant = "chan" /\ sel = "healthyFailed" /\ obs = <<>>
              /\ remote' = RemoteServers[(rrCounter % Len(RemoteServers)) + 1]
        /\ elemAt(Config(2), pickedIdx(0, 2)) = 1 ]_vars

C10_Witness ==
    /\ sel = "fallback" /\ RemoteServers = Config(2) /\ HealthyServers = <<>>
    /\ selCursor = 1 /\ remote = 2

\* ----------------------------------------------------------------- C11
\* Start has the connection in selection, dialing, removal or forward
Handling ==
    accPc \in {"rlock", "len", "idx", "runlock", "chooseHealthy", "fallback",
               "dial", "forward", "rmlock", "rmwait", "rmassign", "rmunlock",
               "remove"}

\* C11: in the channel design a failed Accept is not handed on: no nil
\* connection is in selection, dialing or forward (the claim: Start returns
\* the error instead).
C11_NilConnNotHandled ==
    ~(variant = "chan" /\ conn = "nil" /\ Handling)

\* ----------------------------------------------------------------- C12
\* C12: a connection Start gave up on (selection failed or dial failed) is
\* eventually closed, by the load balancer or with the process.
C12_DroppedIsClosed ==
    dropped ~> (~dropped \/ ~Alive)

\* ----------------------------------------------------------------- C13
\* the model lets a further connection in: its counters are below their caps
BelowCaps == rrCounter < MaxCounter /\ rwReaders < MaxReaders

\* C13: while Start has one connection in selection, dialing or removal,
\* the next connection can be accepted ("main", "lock") or, once
\* acceptAsChan has it, be received and start its own selection ("chan").
C13_AcceptWhileHandling ==
    (Alive /\ Handling /\ BelowCaps) =>
       /\ variant # "chan" => ENABLED AcceptConn
       /\ (variant = "chan" /\ lisPc = "send") => ENABLED ChanRecvConn

\* ----------------------------------------------------------------- C14
\* C14: in every reachable state every element of the healthy set is an
\* element of the configured list, and no step changes the configured list.
C14_HealthyWithinConfigured ==
    /\ [](Range(HealthyServers) \subseteq Range(RemoteServers))
    /\ [][RemoteServers' = RemoteServers]_vars

C14_Witness ==
    /\ variant = "chan" /\ RemoteServers = Config(2) /\ HealthyServers = <<2>>
    /\ dialed = 1 /\ dialRes = "fail" /\ accPc = "select"

\* ----------------------------------------------------------------- C15
\* C15: in src/main.go no interleaving of chooseRemote with the monitor
\* makes chooseRemote index lb.HealthyServers past its end.
C15_NeverOutOfRange ==
    variant = "main" => exited # "index out of range"

\* ----------------------------------------------------------------- C16
\* a step that publishes one iteration's result: the monitor's assignment,
\* or Start's receive from HealthyServersChan
Publishes ==
    /\ monPc \in {"assign", "send"}
    /\ monPc' \in {"unlock", "sleep"}

\* C16: right after a publish the healthy set is exactly the configured
\* backends whose probe returned 200 in that iteration, in configured
\* order, whatever the set was before.
C16_PublishIsTheProbeResult ==
    [][Publishes =>
          HealthyServers' =
             SelectSeq(RemoteServers, LAMBDA s : s \in probeOk)]_vars

\* backend 2 was removed after a failed dial and is back with the publish;
\* backend 1, healthy before, failed its probe and is gone
C16_Witness ==
    /\ variant = "lock" /\ monPc = "unlock" /\ RemoteServers = Config(2)
    /\ dialed = 2 /\ dialRes = "fail" /\ idxSet = <<1, 2>>
    /\ accPc = "accept" /\ HealthyServers = <<2>>

\* ----------------------------------------------------------------- C17
\* a step in which chooseHealthyRemote or the fallback returns a backend
Picks ==
    /\ accPc \in {"chooseHealthy", "fallback"}
    /\ accPc' = "dial"

\* C17: in the channel design a step that picks a backend (healthy or
\* fallback) advances the cursor by exactly one and every other step (a
\* failed selection, the receive of a new healthy set, a removal) leaves it
\* alone; so a handled connection that got a backend has advanced it by
\* one, and one whose two selections failed by nothing.
C17_CursorFrame ==
    [][variant = "chan" =>
          /\ rrCounter' = IF Picks THEN rrCounter + 1 ELSE rrCounter
          /\ sel' \in {"healthy", "fallback"} => rrCounter' = selCursor' + 1
          /\ (sel' = "failed" /\ sel = "healthyFailed") =>
                rrCounter' = rrCounter]_vars

\* the second connection got its backend from the fallback after a publish
\* emptied the healthy set, its dial failed and the removal is done
C17_Witness ==
    /\ variant = "chan" /\ sel = "fallback" /\ selCursor = 2 /\ rrCounter = 3
    /\ dialRes = "fail" /\ accPc = "select"

\* ----------------------------------------------------------------- C18
\* C18: in the lock-based design HealthyServersLock is balanced: outside
\* chooseRemote the accept loop holds no read lock, outside
\* removeHealthyRemote it holds no write lock, and the monitor holds the
\* write lock only between its Lock and its Unlock.
C18_LockBalanced ==
    variant = "lock" =>
       /\ ~InChooseRemote => rwReaders = 0
       /\ accPc \notin {"rmassign", "rmunlock"} => rwWriter # "accept"
       /\ monPc \notin {"assign", "unlock"} => rwWriter # "monitor"

\* ----------------------------------------------------------------- C19
\* C19: at most one health-check task runs in the process, also after
\* Start returned an error and main called Start on a fresh instance.
C19_OneHealthCheckTask ==
    monitors <= 1

\* ----------------------------------------------------------------- C20
\* C20: in the channel design the cursor, a signed integer of fixed width,
\* is never below its start value 1 after any number of selections, and
\* no selection indexes its list outside 0..len-1.
C20_CursorNeverNegative ==
    variant = "chan" => (rrCounter >= 1 /\ exited # "index out of range")

====
